---- MODULE Spec2Model ----
(***************************************************************************)
(* Model of the A2D2 paired-sample dataset (src/src/data/a2d2_dataset.py)  *)
(* and of its use by prepare_data_loaders (src/src/train.py).              *)
(*                                                                         *)
(* A lidar path root/<seq>/lidar/cam_front_center/<frame>.npz is the       *)
(* record [seq, frame]; sequence directories and frame file names are      *)
(* fixed-width, so the lexicographic order of the path strings is the      *)
(* order of (seq, frame).  val_ratio is a double, held exactly as          *)
(* (-1)^neg * m * 2^-e with the integer m in three limbs of 18 bits, and   *)
(* num_samples * val_ratio is the double product, rounded to 53 bits.      *)
(***************************************************************************)
EXTENDS Integers, Sequences, FiniteSets, TLC

VARIABLES
    fs,                    \* lidar scan files on disk under root_path
    missing_keys_files,    \* content of the missing-keys pickle
    missing_point_clouds,  \* content of the empty-point-clouds pickle
    npz,                   \* decoded content of each lidar file
    dataset,               \* an A2D2Dataset built directly by a caller
    train_dataset,         \* prepare_data_loaders: the split="train" dataset
    val_dataset,           \* prepare_data_loaders: the split="val" dataset
    calls,                 \* the __getitem__ calls in progress, per worker
    last_crop              \* observation of the latest _getitem_unsafe call

vars == <<fs, missing_keys_files, missing_point_clouds, npz, dataset,
          train_dataset, val_dataset, calls, last_crop>>

----------------------------------------------------------------------------
(* Bounds of the model *)

\* frames of the first sequence directory, index construction
MaxFrames == 10
\* frames of the second sequence directory, index construction
MaxFramesB == 2
\* highest frame number the empty-point-clouds pickle may list
MaxListedEmpty == 2
\* frames of the first sequence directory when samples are fetched
MaxGetFrames == 2
\* image height and width in pixels
ImgH == 2
ImgW == 2
\* points of a decoded cloud when the crop is checked on arbitrary clouds
MaxPoints == 2

\* max_attempts of __getitem__
MaxAttempts == 100

\* 2^24: above it float32 no longer holds every integer
F32Exact == 16777216

SeqDirs == {1, 2}
Workers == {"w1", "w2"}
Splits == {"train", "val", "test"}

\* the double (-1)^neg * (m0 + m1 * 2^18 + m2 * 2^36) * 2^-e
Dbl(neg, m0, m1, m2, e) == [neg |-> neg, m |-> <<m0, m1, m2>>, e |-> e]

Zero == Dbl(FALSE, 0, 0, 0, 0)
Half == Dbl(FALSE, 1, 0, 0, 1)
One == Dbl(FALSE, 1, 0, 0, 0)
\* the doubles of the literals -0.5, 0.15, 0.2, 0.3, 0.75, of 1/3 and of the
\* largest double below 0.5
MinusHalf == Dbl(TRUE, 1, 0, 0, 1)
Double0_15 == Dbl(FALSE, 209715, 52428, 78643, 55)
Double0_2 == Dbl(FALSE, 52429, 209715, 52428, 54)
Double0_3 == Dbl(FALSE, 209715, 52428, 78643, 54)
DoubleThird == Dbl(FALSE, 87381, 87381, 87381, 54)
DoubleBelowHalf == Dbl(FALSE, 262143, 262143, 131071, 54)
Double0_75 == Dbl(FALSE, 3, 0, 0, 2)

ValRatios == {MinusHalf, Zero, Double0_15, Double0_2, Double0_3, DoubleThird,
              DoubleBelowHalf, Half, Double0_75}

NoCrop == <<>>
CropSizes == {NoCrop, <<1, 1>>, <<ImgH, ImgW>>, <<ImgH + 1, ImgW>>}

----------------------------------------------------------------------------
(* Paths *)

LidarPath(s, k) == [modality |-> "lidar", seq |-> s, frame |-> k]

\* lidar_path.split("/")[-4]
SeqName(lidar_path) == lidar_path.seq

\* file name with "lidar" -> "camera" and ".npz" -> ".png", joined under
\* root_path/seq_name/camera/cam_front_center
ImagePath(seq_name, lidar_path) ==
    [modality |-> "camera", seq |-> seq_name, frame |-> lidar_path.frame]

\* string order of two lidar paths
PathLess(p, q) == p.seq < q.seq \/ (p.seq = q.seq /\ p.frame < q.frame)

RECURSIVE ReverseSortedPaths(_)
ReverseSortedPaths(S) ==
    IF S = {} THEN <<>>
    ELSE LET m == CHOOSE p \in S : \A q \in S : ~PathLess(p, q)
         IN  <<m>> \o ReverseSortedPaths(S \ {m})

\* sorted(glob.glob(...)): glob's order is arbitrary, sorted fixes it
RECURSIVE SortedPaths(_)
SortedPaths(S) ==
    IF S = {} THEN <<>>
    ELSE LET m == CHOOSE p \in S : \A q \in S : ~PathLess(q, p)
         IN  <<m>> \o SortedPaths(S \ {m})

----------------------------------------------------------------------------
(* val_ratio *)

\* bits of a limb, bits of a double's significand
LimbBits == 18
MantissaBits == 53
Radix == 2^LimbBits

\* bit i (bit 0 the lowest) of the integer held in the limbs P
Bit(P, i) == (P[(i \div LimbBits) + 1] \div 2^(i % LimbBits)) % 2

IsZeroInt(P) == \A k \in 1..Len(P) : P[k] = 0

\* the number of bits of the integer held in the limbs P
BitLen(P) ==
    IF IsZeroInt(P) THEN 0
    ELSE LET k == CHOOSE j \in 1..Len(P) :
                     P[j] # 0 /\ \A h \in (j + 1)..Len(P) : P[h] = 0
             b == CHOOSE c \in 1..31 : 2^(c - 1) <= P[k] /\ (c = 31 \/ P[k] < 2^c)
         IN  (k - 1) * LimbBits + b

\* val_ratio < 0, 0 < val_ratio
LessThanZero(v) == v.neg /\ ~IsZeroInt(v.m)
GreaterThanZero(v) == ~v.neg /\ ~IsZeroInt(v.m)

\* 2^-k < v
ExceedsPow2(v, k) ==
    /\ GreaterThanZero(v)
    /\ LET L == BitLen(v.m)
       IN  \/ L > v.e - k + 1
           \/ L = v.e - k + 1 /\ \E i \in 0..(L - 2) : Bit(v.m, i) = 1

GreaterThanHalf(v) == ExceedsPow2(v, 1)

\* Python min(val_ratio, 0.5) and max(0, x)
PyMinHalf(v) == IF GreaterThanHalf(v) THEN Half ELSE v
PyMaxZero(x) == IF GreaterThanZero(x) THEN x ELSE Zero

ClampValRatioToOne(val_ratio) ==
    IF LessThanZero(val_ratio) \/ ExceedsPow2(val_ratio, 0)
    THEN PyMaxZero(IF ExceedsPow2(val_ratio, 0) THEN One ELSE val_ratio)
    ELSE val_ratio

\* __init__: val_ratio outside [0, 0.5] is clamped (and a warning printed)
ClampValRatio(val_ratio) ==
    IF LessThanZero(val_ratio) \/ GreaterThanHalf(val_ratio)
    THEN PyMaxZero(PyMinHalf(val_ratio))
    ELSE val_ratio

\* the exact product n * m of an int 0 <= n < 2^13 and a significand, in limbs
Product(n, m) ==
    LET t0 == n * m[1]
        t1 == n * m[2] + t0 \div Radix
        t2 == n * m[3] + t1 \div Radix
    IN  <<t0 % Radix, t1 % Radix, t2 % Radix, t2 \div Radix>>

\* floor(P * 2^-e), below 2^31
RECURSIVE IntPartFrom(_, _, _)
IntPartFrom(P, k, e) ==
    IF k > Len(P) THEN 0
    ELSE LET low == (k - 1) * LimbBits    \* the weight of limb k is 2^low
             part == IF P[k] = 0 \/ low + LimbBits <= e THEN 0
                     ELSE IF low >= e THEN P[k] * 2^(low - e)
                     ELSE P[k] \div 2^(e - low)
         IN  part + IntPartFrom(P, k + 1, e)

IntPart(P, e) == IntPartFrom(P, 1, e)

FractionIsZero(P, e) == \A i \in 0..(e - 1) : Bit(P, i) = 0

\* the double nearest to P * 2^-e (ties to even) is the integer above it:
\* P has more than 53 bits, and those of its kept bits that are below the
\* binary point and the highest dropped bit are all 1.  (P * 2^-e < 2^52.)
RoundsUpToInteger(P, e) ==
    LET s == BitLen(P) - MantissaBits
    IN  s >= 1 /\ s < e /\ \A i \in (s - 1)..(e - 1) : Bit(P, i) = 1

CeilNumValSamples(num_samples, val_ratio) ==
    LET P == Product(num_samples, val_ratio.m)
    IN  IntPart(P, val_ratio.e) + (IF FractionIsZero(P, val_ratio.e) THEN 0 ELSE 1)

\* int(num_samples * self.val_ratio): the double product, truncated toward 0
NumValSamples(num_samples, val_ratio) ==
    LET P == Product(num_samples, val_ratio.m)
        k == IntPart(P, val_ratio.e)
               + (IF RoundsUpToInteger(P, val_ratio.e) THEN 1 ELSE 0)
    IN  IF val_ratio.neg THEN -k ELSE k

----------------------------------------------------------------------------
(* _create_data_pairs *)

IsExcludedKeysOnly(lidar_path, mk, mp) == lidar_path \in mk

\* lidar_path in self.missing_keys_files or lidar_path in self.missing_point_clouds
IsExcluded(lidar_path, mk, mp) == lidar_path \in mk \/ lidar_path \in mp

\* scene_dict is an insertion-ordered dict: a sequence of [key, val] items
DictKeys(d) == {d[i].key : i \in 1..Len(d)}
DictIndex(d, k) == CHOOSE i \in 1..Len(d) : d[i].key = k

\* the first loop: skip the excluded paths, group the others by seq_name
RECURSIVE BuildSceneDict(_, _, _, _, _)
BuildSceneDict(lidar_paths, i, mk, mp, scene_dict) ==
    IF i > Len(lidar_paths) THEN scene_dict
    ELSE LET lidar_path == lidar_paths[i] IN
         IF IsExcluded(lidar_path, mk, mp)
         THEN BuildSceneDict(lidar_paths, i + 1, mk, mp, scene_dict)
         ELSE LET seq_name == SeqName(lidar_path)
                  d1 == IF seq_name \notin DictKeys(scene_dict)
                        THEN Append(scene_dict, [key |-> seq_name, val |-> <<>>])
                        ELSE scene_dict
                  j  == DictIndex(d1, seq_name)
                  d2 == [d1 EXCEPT ![j].val = Append(@, lidar_path)]
              IN  BuildSceneDict(lidar_paths, i + 1, mk, mp, d2)

\* lidar_paths[:k] and lidar_paths[k:], 0 <= k <= len
Prefix(s, k) == SubSeq(s, 1, k)
Suffix(s, k) == SubSeq(s, k + 1, Len(s))

PairsOf(seq_name, paths) ==
    [i \in 1..Len(paths) |-> <<paths[i], ImagePath(seq_name, paths[i])>>]

\* the second loop: per sequence, the first num_train_samples paths go to
\* train and the rest to val
RECURSIVE SplitScenes(_, _, _, _, _)
SplitScenes(scene_dict, i, val_ratio, train_data_pairs, val_data_pairs) ==
    IF i > Len(scene_dict) THEN <<train_data_pairs, val_data_pairs>>
    ELSE LET seq_name          == scene_dict[i].key
             lidar_paths       == scene_dict[i].val
             num_samples       == Len(lidar_paths)
             num_val_samples   == NumValSamples(num_samples, val_ratio)
             num_train_samples == num_samples - num_val_samples
             train_lidar_paths == Prefix(lidar_paths, num_train_samples)
             val_lidar_paths   == Suffix(lidar_paths, num_train_samples)
         IN  SplitScenes(scene_dict, i + 1, val_ratio,
                         train_data_pairs \o PairsOf(seq_name, train_lidar_paths),
                         val_data_pairs \o PairsOf(seq_name, val_lidar_paths))

CreateDataPairs(files, mk, mp, val_ratio) ==
    LET lidar_paths == SortedPaths(files)
        scene_dict  == BuildSceneDict(lidar_paths, 1, mk, mp, <<>>)
    IN  SplitScenes(scene_dict, 1, val_ratio, <<>>, <<>>)

----------------------------------------------------------------------------
(* __init__ *)

NoDataset ==
    [status |-> "none", split |-> "", val_ratio_arg |-> Zero, val_ratio |-> Zero,
     crop_size |-> NoCrop, train_data_pairs |-> <<>>, val_data_pairs |-> <<>>,
     has_data_pairs |-> FALSE, data_pairs |-> <<>>]

SelectSplitDefaultVal(split, train_data_pairs, val_data_pairs) ==
    IF split = "train"
    THEN [raised |-> FALSE, data_pairs |-> train_data_pairs]
    ELSE [raised |-> FALSE, data_pairs |-> val_data_pairs]

\* the if / elif / else on split; the else raises ValueError
SelectSplit(split, train_data_pairs, val_data_pairs) ==
    IF split = "train"
    THEN [raised |-> FALSE, data_pairs |-> train_data_pairs]
    ELSE IF split = "val"
    THEN [raised |-> FALSE, data_pairs |-> val_data_pairs]
    ELSE [raised |-> TRUE, data_pairs |-> <<>>]

\* A2D2Dataset(...): the object after __init__, or status "raised" when
\* __init__ raised and no object is handed to the caller
A2D2Dataset(files, mk, mp, crop_size, val_ratio, split) ==
    LET vr    == ClampValRatio(val_ratio)
        pairs == CreateDataPairs(files, mk, mp, vr)
        sel   == SelectSplit(split, pairs[1], pairs[2])
    IN  [status           |-> IF sel.raised THEN "raised" ELSE "ok",
         split            |-> split,
         val_ratio_arg    |-> val_ratio,
         val_ratio        |-> vr,
         crop_size        |-> crop_size,
         train_data_pairs |-> pairs[1],
         val_data_pairs   |-> pairs[2],
         has_data_pairs   |-> ~sel.raised,
         data_pairs       |-> sel.data_pairs]

\* __len__
DatasetLen(ds) == Len(ds.data_pairs)

----------------------------------------------------------------------------
(* _getitem_unsafe *)

\* the arrays of one decoded .npz file: points (x, y, z), reflectance,
\* row, col, all of the same length
Cloud(pts) ==
    [points      |-> [i \in 1..Len(pts) |-> pts[i].xyz],
     reflectance |-> [i \in 1..Len(pts) |-> pts[i].refl],
     row         |-> [i \in 1..Len(pts) |-> pts[i].row],
     col         |-> [i \in 1..Len(pts) |-> pts[i].col]]

Pt(xyz, refl, row, col) == [xyz |-> xyz, refl |-> refl, row |-> row, col |-> col]

StackPointCloudSwapped(lidar_data) ==
    [i \in 1..Len(lidar_data.points) |->
        <<lidar_data.points[i][1], lidar_data.points[i][2], lidar_data.points[i][3],
          lidar_data.reflectance[i], lidar_data.col[i], lidar_data.row[i]>>]

\* np.hstack((points, reflectance, row, col)): one row x, y, z, reflectance,
\* row, col per point
StackPointCloud(lidar_data) ==
    [i \in 1..Len(lidar_data.points) |->
        <<lidar_data.points[i][1], lidar_data.points[i][2], lidar_data.points[i][3],
          lidar_data.reflectance[i], lidar_data.row[i], lidar_data.col[i]>>]

Min(a, b) == IF a < b THEN a ELSE b

\* the crop windows random_crop can draw: top and left uniform so that the
\* window lies in the image, the window clamped to an image smaller than it
Windows(img_h, img_w, crop_size) ==
    LET h == Min(crop_size[1], img_h)
        w == Min(crop_size[2], img_w)
    IN  {[top |-> t, left |-> l, h |-> h, w |-> w] :
            t \in 0..(img_h - h), l \in 0..(img_w - w)}

InWindow(row, col, window) ==
    /\ window.top <= row /\ row < window.top + window.h
    /\ window.left <= col /\ col < window.left + window.w

\* random_crop on the point cloud, for the window it drew: the points whose
\* (row, col) lies in the window, their row and col relative to the window
RandomCrop(point_cloud, window) ==
    LET Inside(p) == InWindow(p[5], p[6], window)
        kept == SelectSeq(point_cloud, Inside)
    IN  [i \in 1..Len(kept) |->
            <<kept[i][1], kept[i][2], kept[i][3], kept[i][4],
              kept[i][5] - window.top, kept[i][6] - window.left>>]

\* the windows of one _getitem_unsafe call; without a crop size no window
\* is drawn
WindowsFor(crop_size) ==
    IF crop_size # NoCrop THEN Windows(ImgH, ImgW, crop_size)
    ELSE {[top |-> 0, left |-> 0, h |-> ImgH, w |-> ImgW]}

\* a value 0 <= v < 2^25 stored as float32 (round to nearest, ties to even)
ToFloat32(v) ==
    IF v <= F32Exact \/ v % 2 = 0 THEN v
    ELSE LET q == v \div 2 IN IF q % 2 = 0 THEN 2 * q ELSE 2 * (q + 1)

\* torch.tensor(point_cloud[:, :4], dtype=torch.float32)
PointsTensor(point_cloud) ==
    [i \in 1..Len(point_cloud) |->
        <<ToFloat32(point_cloud[i][1]), ToFloat32(point_cloud[i][2]),
          ToFloat32(point_cloud[i][3]), ToFloat32(point_cloud[i][4])>>]

\* _getitem_unsafe(idx) when random_crop draws `window`
GetItemUnsafe(ds, files, idx, window) ==
    LET lidar_path  == ds.data_pairs[idx + 1][1]
        lidar_data  == files[lidar_path]
        stacked     == StackPointCloud(lidar_data)
        point_cloud == IF ds.crop_size # NoCrop
                       THEN RandomCrop(stacked, window)
                       ELSE stacked
    IN  [idx           |-> idx,
         lidar_data    |-> lidar_data,
         cropped       |-> ds.crop_size # NoCrop,
         window        |-> window,
         point_cloud   |-> point_cloud,
         points_tensor |-> PointsTensor(point_cloud)]

----------------------------------------------------------------------------
(* __getitem__ *)

IdleCall ==
    [pc |-> "idle", req |-> 0, idx |-> 0, attempt |-> 0, trace |-> <<>>,
     result |-> <<>>, err_idx |-> 0, err_attempts |-> 0]

IsNonEmptyOrEmpty(points_tensor) == Len(points_tensor) >= 0

\* point_cloud.size(0) > 0
IsNonEmpty(points_tensor) == Len(points_tensor) > 0

NextIdxSkipping(idx, attempt, n) == (idx + attempt) % n

\* idx = (idx + 1) % len(self.data_pairs), attempt already incremented
NextIdx(idx, attempt, n) == (idx + 1) % n

BumpAttemptShared(cs, c) == [d \in DOMAIN cs |-> [cs[d] EXCEPT !.attempt = @ + 1]]

\* attempt += 1 on the local of call c
BumpAttempt(cs, c) == [cs EXCEPT ![c].attempt = @ + 1]

----------------------------------------------------------------------------
(* Inputs *)

\* the decoded clouds of the files when samples are fetched
DefaultNpz(p) ==
    IF p.seq = 1 /\ p.frame = 1 THEN Cloud(<<Pt(<<1, 2, 3>>, 5, 0, 0)>>)
    ELSE IF p.seq = 1 /\ p.frame = 2
    THEN Cloud(<<Pt(<<4, 5, 6>>, 7, ImgH - 1, ImgW - 1),
                 Pt(<<F32Exact + 1, 0, 2>>, 9, ImgH - 1, ImgW - 1)>>)
    ELSE IF p.seq = 2 /\ p.frame = 1 THEN Cloud(<<>>)
    ELSE Cloud(<<Pt(<<1, 1, 1>>, 1, 0, 0)>>)

FilesOf(nA, nB) ==
    {LidarPath(1, k) : k \in 1..nA} \cup {LidarPath(2, k) : k \in 1..nB}

AtMostOne(S) == {{}} \cup {{p} : p \in S}

PointChoices ==
    {Pt(g[1], g[2], r, c) :
        g \in {<<<<1, 2, 3>>, 5>>, <<<<F32Exact + 1, 0, 7>>, 9>>},
        r \in 0..(ImgH - 1), c \in 0..(ImgW - 1)}

RECURSIVE SeqsUpTo(_, _)
SeqsUpTo(S, n) ==
    IF n = 0 THEN {<<>>}
    ELSE LET shorter == SeqsUpTo(S, n - 1)
         IN  shorter \cup {Append(s, x) : s \in {t \in shorter : Len(t) = n - 1}, x \in S}

Unbuilt ==
    /\ dataset = NoDataset
    /\ train_dataset = NoDataset
    /\ val_dataset = NoDataset
    /\ calls = [c \in Workers |-> IdleCall]
    /\ last_crop = [valid |-> FALSE]

\* the files and pickles before an index is built
InitIndex ==
    /\ \E nA \in 0..MaxFrames, nB \in 0..MaxFramesB : fs = FilesOf(nA, nB)
    /\ missing_keys_files \in AtMostOne(fs)
    /\ missing_point_clouds \in AtMostOne({p \in fs : p.frame <= MaxListedEmpty})
    /\ npz = [p \in fs |-> DefaultNpz(p)]
    /\ Unbuilt

\* the files before a dataset is built and samples are fetched from it
InitGet ==
    /\ \E nA \in 0..MaxGetFrames, nB \in 0..1 : fs = FilesOf(nA, nB)
    /\ missing_keys_files = {}
    /\ missing_point_clouds = {}
    /\ npz = [p \in fs |-> DefaultNpz(p)]
    /\ Unbuilt

\* one scan with an arbitrary cloud, in a dataset built over it
InitCrop ==
    /\ fs = FilesOf(1, 0)
    /\ missing_keys_files = {}
    /\ missing_point_clouds = {}
    /\ \E pts \in SeqsUpTo(PointChoices, MaxPoints) :
          npz = [p \in fs |-> Cloud(pts)]
    /\ \E crop_size \in CropSizes :
          dataset = A2D2Dataset(fs, missing_keys_files, missing_point_clouds,
                                crop_size, Zero, "train")
    /\ train_dataset = NoDataset
    /\ val_dataset = NoDataset
    /\ calls = [c \in Workers |-> IdleCall]
    /\ last_crop = [valid |-> FALSE]

\* two scans in a train dataset, two workers about to fetch from it
InitConc ==
    /\ fs = FilesOf(2, 0)
    /\ missing_keys_files = {}
    /\ missing_point_clouds = {}
    /\ npz = [p \in fs |-> DefaultNpz(p)]
    /\ dataset = A2D2Dataset(fs, missing_keys_files, missing_point_clouds,
                             <<1, 1>>, Zero, "train")
    /\ train_dataset = NoDataset
    /\ val_dataset = NoDataset
    /\ calls = [c \in Workers |-> IdleCall]
    /\ last_crop = [valid |-> FALSE]

----------------------------------------------------------------------------
(* Actions *)

DiskUnchanged == UNCHANGED <<fs, missing_keys_files, missing_point_clouds, npz>>

NothingBuilt ==
    /\ dataset.status = "none"
    /\ train_dataset.status = "none"
    /\ val_dataset.status = "none"

\* A2D2Dataset(crop_size=..., val_ratio=..., split=...)
Construct(val_ratio, split, crop_size) ==
    /\ NothingBuilt
    /\ dataset' = A2D2Dataset(fs, missing_keys_files, missing_point_clouds,
                              crop_size, val_ratio, split)
    /\ DiskUnchanged
    /\ UNCHANGED <<train_dataset, val_dataset, calls, last_crop>>

\* crop_size=(896, 896), the default of __init__, is smaller than the image
DefaultCropSize == <<1, 1>>

\* prepare_data_loaders: two datasets over the same files, the same val_ratio
PrepareDataLoaders(val_ratio) ==
    /\ NothingBuilt
    /\ train_dataset' = A2D2Dataset(fs, missing_keys_files, missing_point_clouds,
                                    DefaultCropSize, val_ratio, "train")
    /\ val_dataset' = A2D2Dataset(fs, missing_keys_files, missing_point_clouds,
                                  DefaultCropSize, val_ratio, "val")
    /\ DiskUnchanged
    /\ UNCHANGED <<dataset, calls, last_crop>>

\* dataset[i]: __getitem__ is entered, attempt = 0
GetCall(c, i) ==
    /\ dataset.status = "ok"
    /\ calls[c].pc = "idle"
    /\ i \in 0..(DatasetLen(dataset) - 1)
    /\ calls' = [calls EXCEPT ![c] = [IdleCall EXCEPT !.pc = "loop", !.req = i, !.idx = i]]
    /\ DiskUnchanged
    /\ UNCHANGED <<dataset, train_dataset, val_dataset, last_crop>>

\* one pass of the while loop: _getitem_unsafe(idx), then return or advance
Cycle(c) ==
    /\ calls[c].pc = "loop"
    /\ calls[c].attempt < MaxAttempts
    /\ \E window \in WindowsFor(dataset.crop_size) :
          LET out  == GetItemUnsafe(dataset, npz, calls[c].idx, window)
              seen == [calls EXCEPT ![c].trace = Append(@, calls[c].idx)]
          IN  IF IsNonEmpty(out.points_tensor)
              THEN calls' = [seen EXCEPT ![c].pc = "returned",
                                         ![c].result = out.points_tensor]
              ELSE LET bumped == BumpAttempt(seen, c)
                   IN  calls' = [bumped EXCEPT
                                   ![c].idx = NextIdx(calls[c].idx, bumped[c].attempt,
                                                      DatasetLen(dataset))]
    /\ DiskUnchanged
    /\ UNCHANGED <<dataset, train_dataset, val_dataset, last_crop>>

\* the loop condition fails: RuntimeError, its message formats max_attempts
\* and the local idx
Raise(c) ==
    /\ calls[c].pc = "loop"
    /\ ~(calls[c].attempt < MaxAttempts)
    /\ calls' = [calls EXCEPT ![c].pc = "raised",
                              ![c].err_idx = calls[c].idx,
                              ![c].err_attempts = MaxAttempts]
    /\ DiskUnchanged
    /\ UNCHANGED <<dataset, train_dataset, val_dataset, last_crop>>

\* _getitem_unsafe(idx) called on its own
CallGetItemUnsafe(idx) ==
    /\ dataset.status = "ok"
    /\ idx \in 0..(DatasetLen(dataset) - 1)
    /\ \E window \in WindowsFor(dataset.crop_size) :
          last_crop' = [valid |-> TRUE] @@ GetItemUnsafe(dataset, npz, idx, window)
    /\ DiskUnchanged
    /\ UNCHANGED <<dataset, train_dataset, val_dataset, calls>>

GetValRatios == {Zero, Half}

NextIndex ==
    \/ \E val_ratio \in ValRatios, split \in Splits :
          Construct(val_ratio, split, DefaultCropSize)
    \/ \E val_ratio \in ValRatios : PrepareDataLoaders(val_ratio)

NextGet ==
    \/ \E val_ratio \in GetValRatios, split \in Splits, crop_size \in CropSizes :
          Construct(val_ratio, split, crop_size)
    \/ \E i \in 0..(MaxGetFrames + 1) : GetCall("w1", i)
    \/ Cycle("w1")
    \/ Raise("w1")

NextCrop == \E idx \in 0..0 : CallGetItemUnsafe(idx)

NextConc ==
    \/ \E c \in Workers, i \in 0..1 : GetCall(c, i)
    \/ \E c \in Workers : Cycle(c)
    \/ \E c \in Workers : Raise(c)

\* index construction over up to MaxFrames + MaxFramesB scans
SpecIndex == InitIndex /\ [][NextIndex]_vars

\* a dataset over a few scans and one __getitem__ call, which runs on once
\* entered
SpecGet == InitGet /\ [][NextGet]_vars /\ WF_vars(Cycle("w1") \/ Raise("w1"))

\* _getitem_unsafe on arbitrary clouds
SpecCrop == InitCrop /\ [][NextCrop]_vars

\* two workers fetching from one dataset, their loop passes interleaved
SpecConc == InitConc /\ [][NextConc]_vars

Spec == SpecGet

----------------------------------------------------------------------------
(* Properties *)

W1 == calls["w1"]
PartitionSize == DatasetLen(dataset)
TraceSet(c) == {calls[c].trace[k] : k \in 1..Len(calls[c].trace)}

\* the lidar paths of a list of (lidar_path, image_path) pairs
PathsOf(pairs) == [i \in 1..Len(pairs) |-> pairs[i][1]]
PathSet(pairs) == {pairs[i][1] : i \in 1..Len(pairs)}
OfSeq(pairs, s) == {i \in 1..Len(pairs) : pairs[i][1].seq = s}

\* the discovered records that are in neither exclusion set
Survivors == fs \ (missing_keys_files \cup missing_point_clouds)
SurvivorsOf(s) == {p \in Survivors : p.seq = s}

\* the datasets whose _create_data_pairs has run
BuiltDatasets == {ds \in {dataset, train_dataset, val_dataset} : ds.status # "none"}

TypeOK ==
    /\ dataset.status \in {"none", "ok", "raised"}
    /\ \A c \in Workers : calls[c].pc \in {"idle", "loop", "returned", "raised"}

\* C1, safety part: a get call never runs more than max_attempts
\* decode/crop cycles, a returned sample has more than zero points, and the
\* exhausted-retries error comes after exactly max_attempts cycles.
C1_Outcome ==
    /\ TypeOK
    /\ Len(W1.trace) <= MaxAttempts
    /\ W1.pc = "returned" => Len(W1.result) > 0
    /\ W1.pc = "raised" => Len(W1.trace) = MaxAttempts /\ W1.attempt = MaxAttempts

\* C1: get(i) on a partition of size n >= 1 always terminates, either
\* returning a sample with point count > 0 or failing after exactly
\* max_attempts cycles of _getitem_unsafe; it never returns zero points and
\* never runs more than max_attempts cycles.
C1_GetReturnsPointsOrFailsAfterMaxAttempts ==
    /\ []C1_Outcome
    /\ (W1.pc = "loop") ~> (W1.pc \in {"returned", "raised"})

\* C1 witness: a call that failed after max_attempts cycles on a partition
\* of more than one record.
C1_Witness ==
    /\ W1.pc = "raised"
    /\ Len(W1.trace) = MaxAttempts
    /\ PartitionSize >= 2

\* C2: when get(i) exhausts its retries, the error reports the originally
\* requested index i and the attempt count max_attempts.
C2_ErrorReportsRequestedIndex ==
    W1.pc = "raised" => W1.err_idx = W1.req /\ W1.err_attempts = MaxAttempts

\* C8: the k-th decode/crop cycle of get(i) (k = 0, 1, ...) works on the
\* record at position (i + k) mod n, and when n <= max_attempts a call that
\* fails with exhausted retries has attempted every record of the partition.
C8_CyclesVisitSuccessiveIndices ==
    /\ \A k \in 1..Len(W1.trace) :
          W1.trace[k] = (W1.req + (k - 1)) % PartitionSize
    /\ (W1.pc = "raised" /\ PartitionSize <= MaxAttempts)
          => TraceSet("w1") = 0..(PartitionSize - 1)

\* C8 witness: a call on a partition of three records that wrapped around
\* and failed.
C8_Witness ==
    /\ W1.pc = "raised"
    /\ PartitionSize = 3
    /\ W1.req = 2
    /\ W1.trace[2] = 0

\* C6: a split other than "train" or "val" makes construction fail, such a
\* dataset has no active partition and no get call is ever issued on it;
\* split "train" activates the train partition and "val" the val partition.
C6_SplitSelectsPartitionOrFails ==
    dataset.status # "none" =>
        /\ dataset.split \notin {"train", "val"} <=> dataset.status = "raised"
        /\ dataset.status = "raised" =>
              /\ ~dataset.has_data_pairs
              /\ \A c \in Workers : calls[c].pc = "idle"
        /\ dataset.split = "train" =>
              dataset.has_data_pairs /\ dataset.data_pairs = dataset.train_data_pairs
        /\ dataset.split = "val" =>
              dataset.has_data_pairs /\ dataset.data_pairs = dataset.val_data_pairs

\* C6 witness: construction with split "test" over existing scans failed.
C6_Witness ==
    /\ dataset.status = "raised"
    /\ dataset.split = "test"
    /\ fs # {}

\* the records of train and val are pairwise distinct, none is excluded and
\* every surviving record is among them
PartitionOK(train_pairs, val_pairs) ==
    /\ Cardinality(PathSet(train_pairs)) = Len(train_pairs)
    /\ Cardinality(PathSet(val_pairs)) = Len(val_pairs)
    /\ PathSet(train_pairs) \cap PathSet(val_pairs) = {}
    /\ PathSet(train_pairs) \cap (missing_keys_files \cup missing_point_clouds) = {}
    /\ PathSet(val_pairs) \cap (missing_keys_files \cup missing_point_clouds) = {}
    /\ PathSet(train_pairs) \cup PathSet(val_pairs) = Survivors

\* C3: the train and val partitions built by _create_data_pairs are
\* disjoint, hold no excluded record and together hold every non-excluded
\* discovered record exactly once; so do the active partitions of the two
\* datasets of prepare_data_loaders.
C3_PartitionsDisjointAndComplete ==
    /\ \A ds \in BuiltDatasets : PartitionOK(ds.train_data_pairs, ds.val_data_pairs)
    /\ train_dataset.status # "none" =>
          PartitionOK(train_dataset.data_pairs, val_dataset.data_pairs)

\* C3 witness: prepare_data_loaders ran over two sequences with a record in
\* each exclusion set, and both loaders' partitions are non-empty.
C3_Witness ==
    /\ train_dataset.status = "ok"
    /\ val_dataset.status = "ok"
    /\ Len(val_dataset.data_pairs) >= 2
    /\ Len(train_dataset.data_pairs) >= 2
    /\ missing_keys_files # {}
    /\ missing_point_clouds # {}
    /\ missing_keys_files # missing_point_clouds
    /\ \A s \in SeqDirs : SurvivorsOf(s) # {}

Ordered(pairs, s) ==
    \A i, j \in OfSeq(pairs, s) : i < j => PathLess(pairs[i][1], pairs[j][1])

\* C4: within a sequence every train record precedes every val record in
\* the lexicographic order of the scan identifiers, and within each
\* partition the records of a sequence are in that order.
C4_TrainPrecedesValInOrder ==
    \A ds \in BuiltDatasets : \A s \in SeqDirs :
        /\ \A i \in OfSeq(ds.train_data_pairs, s), j \in OfSeq(ds.val_data_pairs, s) :
              PathLess(ds.train_data_pairs[i][1], ds.val_data_pairs[j][1])
        /\ Ordered(ds.train_data_pairs, s)
        /\ Ordered(ds.val_data_pairs, s)

\* C4 witness: a sequence that lost a record to exclusion has at least two
\* train and two val records.
C4_Witness ==
    /\ dataset.status = "ok"
    /\ \E p \in missing_keys_files : p \in fs /\ p.seq = 1 /\ p.frame = 2
    /\ Cardinality(OfSeq(dataset.train_data_pairs, 1)) >= 2
    /\ Cardinality(OfSeq(dataset.val_data_pairs, 1)) >= 2

\* floor(n * r) of the exact product of n and the double r >= 0
ExactFloor(n, r) == IntPart(Product(n, r.m), r.e)

\* floor of the double product n * r: the exact floor, or the integer above
\* the exact product when the double nearest to the product is that integer
DoubleFloor(n, r) ==
    ExactFloor(n, r) + (IF RoundsUpToInteger(Product(n, r.m), r.e) THEN 1 ELSE 0)

\* the number of survivors of sequence s that precede p
Rank(p, s) == Cardinality({q \in SurvivorsOf(s) : PathLess(q, p)})

\* sequence s of dataset ds has v val records, the last v survivors, and
\* the other survivors are its train records
SplitAt(ds, s, v) ==
    LET n == Cardinality(SurvivorsOf(s))
        T == OfSeq(ds.train_data_pairs, s)
        V == OfSeq(ds.val_data_pairs, s)
    IN  /\ Cardinality(V) = v
        /\ Cardinality(T) = n - v
        /\ {ds.train_data_pairs[i][1] : i \in T}
              = {p \in SurvivorsOf(s) : Rank(p, s) < n - v}
        /\ {ds.val_data_pairs[i][1] : i \in V}
              = {p \in SurvivorsOf(s) : Rank(p, s) >= n - v}

\* C5 as stated: a sequence with n surviving records gives floor(n * r)
\* records to val and n - floor(n * r) to train, r the effective val_ratio;
\* the train records are the first ones, the val records the last ones.
C5_ValCountIsExactFloor ==
    \A ds \in BuiltDatasets : \A s \in SeqDirs :
        SplitAt(ds, s, ExactFloor(Cardinality(SurvivorsOf(s)), ds.val_ratio))

\* C5 amended: a sequence with n surviving records gives v records to val
\* and n - v to train, v the floor of the double-precision product n * r;
\* the train records are the first ones, the val records the last ones.
C5_ValCountIsFloorOfDoubleProduct ==
    \A ds \in BuiltDatasets : \A s \in SeqDirs :
        SplitAt(ds, s, DoubleFloor(Cardinality(SurvivorsOf(s)), ds.val_ratio))

\* C5 witness: a sequence of 10 surviving records with val_ratio 0.2 has 8
\* train records and 2 val records, the last two.
C5_Witness ==
    /\ dataset.status = "ok"
    /\ dataset.val_ratio = Double0_2
    /\ Cardinality(SurvivorsOf(1)) = 10
    /\ Cardinality(OfSeq(dataset.train_data_pairs, 1)) = 8
    /\ {dataset.val_data_pairs[i][1] : i \in OfSeq(dataset.val_data_pairs, 1)}
          = {LidarPath(1, 9), LidarPath(1, 10)}

\* C10: whatever val_ratio is passed, it is clamped to [0, 0.5] and not
\* rejected; no sequence has more val than train records, a sequence with a
\* surviving record has a train record, and the train partition is
\* non-empty whenever a record survives exclusion.
C10_ValNeverExceedsTrain ==
    \A ds \in BuiltDatasets :
        /\ ~LessThanZero(ds.val_ratio) /\ ~GreaterThanHalf(ds.val_ratio)
        /\ ds.split \in {"train", "val"} => ds.status = "ok"
        /\ \A s \in SeqDirs :
              /\ Cardinality(OfSeq(ds.val_data_pairs, s))
                    <= Cardinality(OfSeq(ds.train_data_pairs, s))
              /\ SurvivorsOf(s) # {} => OfSeq(ds.train_data_pairs, s) # {}
        /\ Survivors # {} => Len(ds.train_data_pairs) >= 1

\* C10 witness: val_ratio 0.75 was passed, and a sequence has as many val
\* as train records, another a single record, in train.
C10_Witness ==
    /\ dataset.status = "ok"
    /\ dataset.val_ratio_arg = Double0_75
    /\ Cardinality(OfSeq(dataset.val_data_pairs, 1)) >= 2
    /\ Cardinality(OfSeq(dataset.val_data_pairs, 1))
          = Cardinality(OfSeq(dataset.train_data_pairs, 1))
    /\ Cardinality(SurvivorsOf(2)) = 1
    /\ Cardinality(OfSeq(dataset.train_data_pairs, 2)) = 1

\* the containment predicate on an original pixel coordinate, for the crop
\* size (target_h, target_w) and the window origin (top, left)
Contained(row, col, top, left, target) ==
    /\ top <= row /\ row < top + target[1]
    /\ left <= col /\ col < left + target[2]

\* the j-th smallest element of the set K of indices
Nth(K, j) == CHOOSE i \in K : Cardinality({k \in K : k <= i}) = j

\* C7: the points random_crop returns are exactly the input points whose
\* original (row, col) is inside the window, in their order, each with its
\* x, y, z, reflectance unchanged and its coordinate (row - top, col - left).
C7_CropKeepsContainedPointsRebased ==
    (last_crop.valid /\ last_crop.cropped) =>
        LET ld   == last_crop.lidar_data
            top  == last_crop.window.top
            left == last_crop.window.left
            out  == last_crop.point_cloud
            K    == {i \in 1..Len(ld.points) :
                        Contained(ld.row[i], ld.col[i], top, left, dataset.crop_size)}
        IN  /\ Len(out) = Cardinality(K)
            /\ \A j \in 1..Len(out) :
                  LET i == Nth(K, j)
                  IN  out[j] = <<ld.points[i][1], ld.points[i][2], ld.points[i][3],
                                 ld.reflectance[i],
                                 ld.row[i] - top, ld.col[i] - left>>

\* C7 witness: a window away from the image origin kept one point of a
\* cloud and dropped another.
C7_Witness ==
    /\ last_crop.valid
    /\ last_crop.cropped
    /\ last_crop.window.top > 0
    /\ last_crop.window.left = 0
    /\ Len(last_crop.point_cloud) = 1
    /\ Len(last_crop.lidar_data.points) = 2

\* what a call that ran alone shows for its request and the crops it drew
RanAlone(c) ==
    LET r == calls[c]
        n == PartitionSize
        L == Len(r.trace)
    IN  /\ \A k \in 1..L : r.trace[k] = (r.req + (k - 1)) % n
        /\ r.pc = "idle" => L = 0
        /\ r.pc = "loop" => r.attempt = L /\ r.idx = (r.req + L) % n
        /\ r.pc = "returned" =>
              /\ L >= 1 /\ r.attempt = L - 1 /\ r.idx = r.trace[L]
              /\ Len(r.result) > 0
              /\ \E w \in WindowsFor(dataset.crop_size) :
                    r.result = GetItemUnsafe(dataset, npz, r.idx, w).points_tensor
        /\ r.pc = "raised" =>
              /\ L = MaxAttempts /\ r.attempt = MaxAttempts
              /\ r.idx = (r.req + MaxAttempts) % n

\* C9: the steps of get calls never change the partitioned index or the
\* dataset length, and under any interleaving of two calls each call's
\* attempt counter, index sequence and outcome are those of a call alone.
C9_ConcurrentCallsIndependent ==
    /\ [](\A c \in Workers : RanAlone(c))
    /\ [][/\ dataset' = dataset
          /\ DatasetLen(dataset') = DatasetLen(dataset)
          /\ \A c \in Workers :
                calls'[c] # calls[c] =>
                    \A d \in Workers \ {c} : calls'[d] = calls[d]]_vars

\* C9 witness: of two interleaved calls one failed after max_attempts
\* cycles while the other returned a sample after retries.
C9_Witness ==
    /\ calls["w1"].pc = "raised"
    /\ calls["w2"].pc = "returned"
    /\ calls["w2"].attempt >= 1
    /\ calls["w2"].req # calls["w1"].req

====
